---- MODULE Spec2Model ----
(***************************************************************************)
(* Name resolution of pydocspec (src/pydocspec/__init__.py):               *)
(* ApiObject.expand_name / resolve_name / _local_to_full_name /            *)
(* _resolve_indirection and Class.resolved_bases / all_bases / find.       *)
(*                                                                         *)
(* Representation.                                                         *)
(*  - A Python str is a sequence of tokens; a token is an identifier or    *)
(*    the separator ".".  "m1.P" is <<"m1", ".", "P">>.  A part of a       *)
(*    dotted name is itself a str (normally of one token).                 *)
(*  - None, where a str is expected, is the empty sequence (None and ""    *)
(*    are both falsy for the `or` of lines 252 and 254).                   *)
(*  - An entity is its index in `tree`; None, where an entity is           *)
(*    expected, is 0.                                                      *)
(*  - An exception leaving a call (RecursionError, AssertionError) is the  *)
(*    value Raised (str), RaisedObj (entity) or <<RaiseElem>> (list of     *)
(*    bases); every caller propagates it, as no code of the module         *)
(*    catches exceptions.                                                  *)
(*  - The tree is immutable after loading; the cached_property caches do   *)
(*    not change any value and are not state.                              *)
(***************************************************************************)
EXTENDS Integers, Sequences, FiniteSets, TLC

VARIABLES tree, call, result

vars == <<tree, call, result>>

\* ------------------------------------------------------------------------
\* Bounds of the model.

\* longest alias chain a1 = a2, ..., ak = origin that is built
MaxChain == 7

\* ------------------------------------------------------------------------
\* Constants of the program.

\* the bound set three too low
_RESOLVE_ALIAS_MAX_RECURSE_Low == 5 - 3

\* the bound set three too high
_RESOLVE_ALIAS_MAX_RECURSE_High == 5 + 3

_RESOLVE_ALIAS_MAX_RECURSE == 5

\* ------------------------------------------------------------------------
\* Values.

DOT == "."

None == 0

NoneStr == <<>>

Raised == <<"!RecursionError">>

RaisedObj == 0 - 1

RaiseElem == [obj |-> RaisedObj, str |-> <<>>]

ObjElem(e) == [obj |-> e, str |-> <<>>]

StrElem(s) == [obj |-> None, str |-> s]

RaisedBases == <<RaiseElem>>

\* ------------------------------------------------------------------------
\* str.split('.') and '.'.join, as DottedName uses them.

RECURSIVE split(_)
split(s) ==
  IF \A k \in 1..Len(s) : s[k] # DOT
  THEN <<s>>
  ELSE LET k == CHOOSE k \in 1..Len(s) : s[k] = DOT /\ \A j \in 1..(k-1) : s[j] # DOT
       IN  <<SubSeq(s, 1, k-1)>> \o split(SubSeq(s, k+1, Len(s)))

RECURSIVE join(_)
join(pieces) ==
  IF Len(pieces) = 0 THEN <<>>
  ELSE IF Len(pieces) = 1 THEN pieces[1]
  ELSE pieces[1] \o <<DOT>> \o join(Tail(pieces))

\* DottedName(*pieces): the identifiers of all the pieces, each piece split
\* on the separator.
RECURSIVE DottedName(_)
DottedName(pieces) ==
  IF Len(pieces) = 0 THEN <<>>
  ELSE split(pieces[1]) \o DottedName(Tail(pieces))

\* str(DottedName)
str(identifiers) == join(identifiers)

\* astutils.node2dottedname(value_ast) is not None: the text is a plain,
\* possibly dotted, name: identifiers separated by single dots.
IsLiteralToken(t) == t \in {"0", "1", "[]", "()"}

IsDottedNameText(s) ==
  /\ Len(s) > 0
  /\ \A k \in 1..Len(s) :
       IF k % 2 = 1 THEN s[k] # DOT /\ ~IsLiteralToken(s[k]) ELSE s[k] = DOT
  /\ Len(s) % 2 = 1

\* ------------------------------------------------------------------------
\* Entities.

ApiObject(kind, name, parent, value, target, bases) ==
  [kind |-> kind, name |-> <<name>>, parent |-> parent,
   value |-> value, target |-> target, bases |-> bases]

Module(name, parent) == ApiObject("Module", name, parent, <<>>, <<>>, <<>>)

Class(name, parent, bases) == ApiObject("Class", name, parent, <<>>, <<>>, bases)

Function(name, parent) == ApiObject("Function", name, parent, <<>>, <<>>, <<>>)

Data(name, parent, value) == ApiObject("Data", name, parent, value, <<>>, <<>>)

Indirection(name, parent, target) ==
  ApiObject("Indirection", name, parent, <<>>, target, <<>>)

Entities == 1..Len(tree)

isModule(e) == tree[e].kind = "Module"

isClass(e) == tree[e].kind = "Class"

isData(e) == tree[e].kind = "Data"

isIndirection(e) == tree[e].kind = "Indirection"

HasMembers(e) == isModule(e) \/ isClass(e)

\* docspec path: the entities from the root down to e
RECURSIVE path(_)
path(e) ==
  IF tree[e].parent = None THEN <<e>>
  ELSE Append(path(tree[e].parent), e)

dotted_name(e) ==
  LET p == path(e)
  IN  DottedName([k \in 1..Len(p) |-> tree[p[k]].name])

full_name(e) == str(dotted_name(e))

RECURSIVE module(_)
module(e) ==
  IF isModule(e) THEN e
  ELSE IF tree[e].parent = None THEN RaisedObj
  ELSE module(tree[e].parent)

RECURSIVE root_module(_)
root_module(e) ==
  IF isModule(e) /\ tree[e].parent = None THEN e
  ELSE IF tree[e].parent = None THEN RaisedObj
  ELSE root_module(tree[e].parent)

\* the members list of a container, in declaration order (index order)
members(e) == {m \in Entities : tree[m].parent = e}

Min(S) == CHOOSE x \in S : \A y \in S : x <= y

get_member_modules_only(self, name) ==
  LET named == {m \in members(self) : tree[m].name = name}
  IN  IF isModule(self) /\ named # {} THEN Min(named) ELSE None

get_member(self, name) ==
  LET named == {m \in members(self) : tree[m].name = name}
  IN  IF HasMembers(self) /\ named # {} THEN Min(named) ELSE None

\* ApiObjectsRoot.all_objects.get: the loader registers every entity under
\* its full name, in index order, and the first one registered wins.
all_objects_get(name) ==
  LET named == {e \in Entities : full_name(e) = name}
  IN  IF named # {} THEN Min(named) ELSE None

is_alias_name_only(e) ==
  isData(e) /\ IsDottedNameText(tree[e].value) /\ Len(tree[e].value) = 1

\* lines 363-369
is_alias(e) == isData(e) /\ IsDottedNameText(tree[e].value)

\* An Indirection object: the entity itself for an Indirection, the object
\* built by Data._alias_indirection for an alias.  `location` is the source
\* line of the entity, which is its index.
IndirectionOf(e) ==
  [name |-> tree[e].name, location |-> e, target |-> tree[e].target,
   parent |-> tree[e].parent]

_alias_indirection(e) ==
  [name |-> tree[e].name, location |-> e, target |-> tree[e].value,
   parent |-> tree[e].parent]

indirection_full_name(ind) == str(DottedName(<<full_name(ind.parent), ind.name>>))

\* ------------------------------------------------------------------------
\* The resolution engine.  `busy` is the part of the call stack that
\* matters for termination: the classes whose resolved_bases is being
\* computed.  resolved_bases takes no argument and starts every lookup with
\* a fresh chain of indirections, so a computation of C.resolved_bases that
\* reaches C.resolved_bases again repeats itself until the interpreter
\* raises RecursionError (cached_property stores the value only when the
\* call returns).

RECURSIVE expand_name(_, _, _, _, _)
RECURSIVE expand_parts(_, _, _, _, _, _, _)
RECURSIVE _local_to_full_name(_, _, _, _, _)
RECURSIVE _resolve_indirection(_, _, _, _)
RECURSIVE resolve_name(_, _, _, _)
RECURSIVE resolved_bases(_, _)
RECURSIVE resolved_bases_from(_, _, _)
RECURSIVE all_bases(_, _, _, _)
RECURSIVE all_bases_from(_, _, _, _)
RECURSIVE find(_, _, _)

\* line 212: `full_name == part and i != 0`, the local name was not found
\* (i counts from 1 here)
not_found_any_index(full, part, i) == full = part

not_found(full, part, i) == full = part /\ i # 1

\* line 231: str(DottedName(full_name, *parts[i + 1:]))
expand_result(full, parts, i) ==
  str(DottedName(<<full>> \o SubSeq(parts, i + 1, Len(parts))))

\* lines 226-229 and 231: the registry lookup that ends the loop body
expand_next(self, parts, i, full, follow_aliases, _indirections, busy) ==
  LET nxt == all_objects_get(full)
  IN  IF nxt = None \/ i = Len(parts)
      THEN expand_result(full, parts, i)
      ELSE expand_parts(self, parts, i + 1, nxt, follow_aliases, _indirections, busy)

\* lines 210-229: one iteration of the loop over the parts, parts[i] looked
\* up in the context ctx (i counts from 1, so the first part is i = 1)
expand_parts(self, parts, i, ctx, follow_aliases, _indirections, busy) ==
  LET part == parts[i]
      full == _local_to_full_name(ctx, part, follow_aliases, _indirections, busy)
  IN  IF full = Raised THEN Raised
      ELSE IF not_found(full, part, i)
      THEN LET f == IF isClass(ctx) THEN find(ctx, part, busy) ELSE None
           IN  IF f = RaisedObj THEN Raised
               ELSE LET inherited == IF f # None THEN full_name(f) ELSE full
                    IN  IF inherited = part
                        THEN expand_result(full_name(ctx) \o <<DOT>> \o part, parts, i)
                        ELSE expand_next(self, parts, i, inherited,
                                         follow_aliases, _indirections, busy)
      ELSE expand_next(self, parts, i, full, follow_aliases, _indirections, busy)

\* lines 164-231
expand_name(self, name, follow_aliases, _indirections, busy) ==
  expand_parts(self, DottedName(<<name>>), 1, self, follow_aliases, _indirections, busy)

\* lines 233-241
resolve_name(self, name, follow_aliases, busy) ==
  LET expanded == expand_name(self, name, follow_aliases, <<>>, busy)
  IN  IF expanded = Raised THEN RaisedObj ELSE all_objects_get(expanded)

resolved_or_nothing(resolved, member) == resolved

\* lines 252 and 254: `self._resolve_indirection(...) or member.full_name`
resolved_or_own(resolved, member) ==
  IF resolved = Raised THEN Raised
  ELSE IF resolved # NoneStr THEN resolved
  ELSE full_name(member)

\* lines 243-261
_local_to_full_name(self, name, follow_aliases, _indirections, busy) ==
  IF ~HasMembers(self)
  THEN IF tree[self].parent = None THEN Raised
       ELSE _local_to_full_name(tree[self].parent, name, follow_aliases, _indirections, busy)
  ELSE LET member == get_member(self, name)
       IN  IF member # None
           THEN IF follow_aliases /\ isData(member) /\ is_alias(member)
                THEN resolved_or_own(
                       _resolve_indirection(self, _alias_indirection(member), _indirections, busy),
                       member)
                ELSE IF isIndirection(member)
                THEN resolved_or_own(
                       _resolve_indirection(self, IndirectionOf(member), _indirections, busy),
                       member)
                ELSE full_name(member)
           ELSE IF isClass(self)
           THEN IF tree[self].parent = None THEN Raised
                ELSE _local_to_full_name(tree[self].parent, name, follow_aliases, _indirections, busy)
           ELSE name

\* line 279: the name returned when the chain is too long
cutoff_name_of_last(_indirections) ==
  indirection_full_name(_indirections[Len(_indirections)])

cutoff_name(_indirections) == indirection_full_name(_indirections[1])

\* lines 263-299.  The recursive calls of lines 290 and 297 do not pass
\* follow_aliases, which is then the default, True.
_resolve_indirection(self, indirection, _indirections, busy) ==
  IF Len(_indirections) > _RESOLVE_ALIAS_MAX_RECURSE
  THEN cutoff_name(_indirections)
  ELSE LET target == indirection.target
           ctx == indirection.parent
           chain == Append(_indirections, indirection)
       IN  IF ctx = None THEN Raised
           ELSE IF _indirections = <<>> \/ _indirections[Len(_indirections)] # indirection
           THEN expand_name(ctx, target, TRUE, chain, busy)
           ELSE IF tree[ctx].parent # None /\ module(ctx) = module(tree[ctx].parent)
           THEN expand_name(tree[ctx].parent, target, TRUE, chain, busy)
           ELSE NoneStr

\* lines 431-434, the loop from the j-th base on
resolved_bases_from(self, j, busy) ==
  IF j > Len(tree[self].bases) THEN <<>>
  ELSE LET base == tree[self].bases[j]
           parent == tree[self].parent
           obj == resolve_name(parent, base, TRUE, busy)
           expanded == expand_name(parent, base, TRUE, <<>>, busy)
           rest == resolved_bases_from(self, j + 1, busy)
       IN  IF obj = RaisedObj \/ rest = RaisedBases THEN RaisedBases
           ELSE IF obj # None THEN <<ObjElem(obj)>> \o rest
           ELSE <<StrElem(expanded)>> \o rest

\* lines 424-434
resolved_bases(self, busy) ==
  IF self \in busy \/ (tree[self].bases # <<>> /\ tree[self].parent = None)
  THEN RaisedBases
  ELSE resolved_bases_from(self, 1, busy \cup {self})

EndsRaised(elems) == Len(elems) > 0 /\ elems[Len(elems)] = RaiseElem

\* lines 440-444, the loop from the j-th resolved base on
all_bases_from(bases, j, visiting, busy) ==
  IF j > Len(bases) THEN <<>>
  ELSE LET b == bases[j]
           sub == IF b.obj # None /\ isClass(b.obj)
                  THEN all_bases(b.obj, TRUE, visiting, busy)
                  ELSE <<b>>
       IN  IF EndsRaised(sub) THEN sub
           ELSE sub \o all_bases_from(bases, j + 1, visiting, busy)

\* lines 436-444.  The generator is the list of what it yields, ended by
\* RaiseElem when it raises.  `visiting` holds the classes whose all_bases
\* generator is suspended in the traversal: a class met again below itself
\* is traversed again in the same way, one generator deeper each time,
\* until RecursionError.
all_bases(self, include_self, visiting, busy) ==
  IF self \in visiting THEN RaisedBases
  ELSE LET first == IF include_self THEN <<ObjElem(self)>> ELSE <<>>
           bases == resolved_bases(self, busy)
       IN  IF bases = RaisedBases THEN first \o RaisedBases
           ELSE first \o all_bases_from(bases, 1, visiting \cup {self}, busy)

\* lines 446-450
all_base_classes(self, include_self, busy) ==
  LET elems == all_bases(self, include_self, {}, busy)
  IN  SelectSeq(elems, LAMBDA b : b = RaiseElem \/ (b.obj # None /\ isClass(b.obj)))

\* lines 459-463, the scan from the j-th class on
RECURSIVE find_from(_, _, _)
find_from(classes, j, name) ==
  IF j > Len(classes) THEN None
  ELSE IF classes[j] = RaiseElem THEN RaisedObj
  ELSE LET obj == get_member(classes[j].obj, name)
       IN  IF obj # None THEN obj ELSE find_from(classes, j + 1, name)

find_skipping_self(self, name, busy) ==
  find_from(all_base_classes(self, FALSE, busy), 1, name)

\* lines 452-463
find(self, name, busy) == find_from(all_base_classes(self, TRUE, busy), 1, name)

\* ------------------------------------------------------------------------
\* The trees the loader may have built.  Every non-root entity has a
\* parent of a lower index, every root is a Module, and the registry holds
\* every entity.

N1(a) == <<a>>

N2(a, b) == <<a, DOT, b>>

N3(a, b, c) == <<a, DOT, b, DOT, c>>

\* The two modules of the docstring of expand_name (lines 186-196), with a
\* class of m2 that may carry the name of a class of m1.
ScenarioTree(other) ==
  << Module("m1", 0),
     Class("Local", 1, <<>>),
     Class("Processor", 1, <<>>),
     Data("spec", 3, N2("external", "Thing")),
     Data("P", 1, N1("Processor")),
     Module("m2", 0),
     Indirection("P", 6, N2("m1", "P")),
     Data("renamed_mod", 6, N1("m1")),
     Class(other, 6, <<>>),
     Function("run", 9) >>

ScenarioTrees == {ScenarioTree(other) : other \in {"E", "Processor", "os", "m2"}}

AliasNames == <<"a1", "a2", "a3", "a4", "a5", "a6", "a7", "a8", "a9", "a10">>

Origin(kind) ==
  IF kind = "Class" THEN Class("origin", 1, <<>>)
  ELSE IF kind = "Function" THEN Function("origin", 1)
  ELSE Data("origin", 1, N1("0"))

\* module m: a1 = a2, a2 = a3, ..., ak = last, and an entity named origin
ChainTree(k, last, kind) ==
  [i \in 1..(k + 2) |->
     IF i = 1 THEN Module("m", 0)
     ELSE IF i = k + 2 THEN Origin(kind)
     ELSE Data(AliasNames[i - 1], 1,
               IF i - 1 < k THEN N1(AliasNames[i]) ELSE N1(last))]

ChainTrees ==
  {ChainTree(k, "origin", "Class") : k \in 1..MaxChain}
  \cup {ChainTree(k, "origin", kind) : k \in 1..2, kind \in {"Function", "Data"}}
  \cup UNION {{ChainTree(k, AliasNames[j], "Class") : j \in {1, k}} : k \in 1..MaxChain}
  \cup {ChainTree(3, AliasNames[2], "Class")}

\* module m with classes A and C and the aliases a and b
MixedTree(va, vb, vx, bC) ==
  << Module("m", 0),
     Class("A", 1, <<>>),
     Data("x", 2, vx),
     Class("C", 1, bC),
     Data("a", 1, va),
     Data("b", 1, vb) >>

MixedTrees ==
  {MixedTree(va, vb, N1("0"), <<N1("A")>>) :
     va \in {N1("b"), N1("A"), N2("b", "x")},
     vb \in {N1("a"), N2("a", "y"), N1("b")}}
  \cup {MixedTree(N2("C", "x"), N1("a"), vx, bC) :
     vx \in {N1("0"), N1("x")},
     bC \in {<<>>, <<N1("C")>>, <<N2("C", "x")>>, <<N1("b")>>}}
  \cup {MixedTree(N2("A", "x"), N2("C", "x"), N2("ext", "T"), <<N1("A")>>)}

\* classes with bases: C(A, B) and the like, A(A0)
InheritTree(nA, n10, bC) ==
  << Module("m", 0),
     Class("A0", 1, <<>>),
     Function("g", 2),
     Class("A", 1, <<N1("A0")>>),
     Function(nA, 4),
     Class("B", 1, <<>>),
     Function("f", 6),
     Class("C", 1, bC),
     Function("h", 8),
     Function(n10, 1),
     Data("Ab", 1, N1("A")) >>

InheritTrees ==
  {InheritTree(n[1], n[2], bC) :
     n \in {<<"f", "k2">>, <<"k", "f">>, <<"f", "g">>},
     bC \in {<<N1("A"), N1("B")>>, <<N1("B"), N1("A")>>,
             <<N2("ext", "Base"), N1("Ab")>>}}

\* a package: module sub in pkg, names that alias themselves, and two
\* classes of the same name
PackageTree(vX, selfKind) ==
  << Module("pkg", 0),
     Data("X", 1, vX),
     Module("sub", 1),
     IF selfKind = "Data" THEN Data("X", 3, N1("X")) ELSE Indirection("X", 3, N1("X")),
     Class("K", 3, <<>>),
     Data("X", 5, N1("X")),
     Class("K", 3, <<>>),
     Function("y", 7) >>

PackageTrees ==
  {PackageTree(vX, selfKind) :
     vX \in {N1("0"), N2("ext", "Y")}, selfKind \in {"Data", "Indirection"}}

\* classes A and B whose members X stand for each other
CrossTree(kind) ==
  << Module("m", 0),
     Class("A", 1, <<>>),
     IF kind = "Data" THEN Data("X", 2, N2("B", "X")) ELSE Indirection("X", 2, N2("B", "X")),
     Class("B", 1, <<>>),
     Data("X", 4, N2("A", "X")) >>

CrossTrees == {CrossTree(kind) : kind \in {"Data", "Indirection"}}

\* a name that aliases itself inside the class K, which is in the module m
\* or in the class O of m; the module has the aliases a1 = a2, ..., ak =
\* origin (none when k = 0)
SelfTree(k, selfKind, nested) ==
  [i \in 1..(k + 5) |->
     IF i = 1 THEN Module("m", 0)
     ELSE IF i = 2 THEN Class("O", 1, <<>>)
     ELSE IF i = 3 THEN Class("K", IF nested THEN 2 ELSE 1, <<>>)
     ELSE IF i = 4
     THEN IF selfKind = "Data" THEN Data("a1", 3, N1("a1"))
          ELSE Indirection("a1", 3, N1("a1"))
     ELSE IF i = k + 5 THEN Class("origin", 1, <<>>)
     ELSE Data(AliasNames[i - 4], 1,
               IF i - 4 < k THEN N1(AliasNames[i - 3]) ELSE N1("origin"))]

SelfTrees ==
  {SelfTree(k, selfKind, nested) :
     k \in {0, 4, 5}, selfKind \in {"Data", "Indirection"}, nested \in BOOLEAN}

Trees ==
  ScenarioTrees \cup ChainTrees \cup MixedTrees \cup InheritTrees \cup PackageTrees
  \cup CrossTrees \cup SelfTrees

\* ------------------------------------------------------------------------
\* The names the callers ask about.

LocalNames == {tree[e].name : e \in Entities}

FullNames == {full_name(e) : e \in Entities}

Texts ==
  {tree[e].value : e \in {d \in Entities : is_alias(d)}}
  \cup {tree[e].target : e \in {d \in Entities : isIndirection(d)}}
  \cup UNION {{tree[e].bases[j] : j \in 1..Len(tree[e].bases)} : e \in Entities}

Qualifiers ==
  {tree[e].name : e \in {d \in Entities : isClass(d) \/ is_alias(d) \/ isIndirection(d)}}

MemberNames ==
  {tree[e].name : e \in {d \in Entities : isClass(d) \/ (tree[d].parent # None /\ isClass(tree[d].parent))}}

QueryNames ==
  LocalNames \cup FullNames \cup Texts
  \cup {q \o <<DOT>> \o n : q \in Qualifiers, n \in MemberNames}
  \cup {N3("os", "path", "join"), N1("zzz")}

\* ------------------------------------------------------------------------
\* The state machine: the loader builds one tree, then callers query it.

NoCall == [op |-> "none", self |-> None, name |-> <<>>, follow_aliases |-> FALSE]

NoResult == [str |-> NoneStr, obj |-> None]

\* the entities that issue queries: every container, and the first member
\* of each container that is not a container
Callers ==
  {e \in Entities :
     \/ HasMembers(e)
     \/ \A m \in members(tree[e].parent) : HasMembers(m) \/ e <= m}

Init ==
  /\ tree \in Trees
  /\ call = NoCall
  /\ result = NoResult

\* a caller's entity.expand_name(name, follow_aliases)
ExpandName(self, name, follow_aliases) ==
  /\ call = NoCall
  /\ call' = [op |-> "expand_name", self |-> self, name |-> name,
              follow_aliases |-> follow_aliases]
  /\ result' = [str |-> expand_name(self, name, follow_aliases, <<>>, {}), obj |-> None]
  /\ UNCHANGED tree

\* a caller's entity.resolve_name(name, follow_aliases)
ResolveName(self, name, follow_aliases) ==
  /\ call = NoCall
  /\ call' = [op |-> "resolve_name", self |-> self, name |-> name,
              follow_aliases |-> follow_aliases]
  /\ result' = [str |-> NoneStr, obj |-> resolve_name(self, name, follow_aliases, {})]
  /\ UNCHANGED tree

\* a caller's cls.find(name)
Find(self, name) ==
  /\ call = NoCall
  /\ isClass(self)
  /\ call' = [op |-> "find", self |-> self, name |-> name, follow_aliases |-> FALSE]
  /\ result' = [str |-> NoneStr, obj |-> find(self, name, {})]
  /\ UNCHANGED tree

\* the caller has its answer and is ready for the next query
Return ==
  /\ call # NoCall
  /\ call' = NoCall
  /\ result' = NoResult
  /\ UNCHANGED tree

Next ==
  \/ \E self \in Callers, name \in QueryNames, follow_aliases \in BOOLEAN :
       ExpandName(self, name, follow_aliases)
  \/ \E self \in Callers, name \in QueryNames, follow_aliases \in BOOLEAN :
       ResolveName(self, name, follow_aliases)
  \/ \E self \in Callers, name \in LocalNames : Find(self, name)
  \/ Return

Spec == Init /\ [][Next]_vars

TypeOK ==
  /\ tree \in Trees
  /\ call.op \in {"none", "expand_name", "resolve_name", "find"}
  /\ result.obj \in {RaisedObj, None} \cup Entities

\* ------------------------------------------------------------------------
\* Vocabulary of the properties.

IsExpand == call.op = "expand_name"

IsResolve == call.op = "resolve_name"

IsFind == call.op = "find"

\* the nearest container: the entity itself if it is a Module or a Class
RECURSIVE container(_)
container(e) == IF HasMembers(e) THEN e ELSE container(tree[e].parent)

\* the first direct member of container c that is named n, or None
FirstMember(c, n) ==
  LET named == {m \in Entities : tree[m].parent = c /\ tree[m].name = n}
  IN  IF named = {} THEN None ELSE CHOOSE m \in named : \A o \in named : m <= o

IsAliasOrIndirection(e) == isIndirection(e) \/ is_alias(e)

\* the classes among the resolved bases of class c
BaseClassesOf(c) ==
  LET bases == resolved_bases(c, {})
  IN  IF bases = RaisedBases THEN {}
      ELSE {bases[j].obj : j \in {k \in 1..Len(bases) :
                                    bases[k].obj # None /\ isClass(bases[k].obj)}}

RECURSIVE BaseClosure(_, _)
BaseClosure(frontier, seen) ==
  LET new == UNION {BaseClassesOf(c) : c \in frontier} \ seen
  IN  IF new = {} THEN seen ELSE BaseClosure(new, seen \cup new)

\* no class is its own direct or indirect base class
NoClassIsOwnBase ==
  \A c \in Entities : isClass(c) => c \notin BaseClosure({c}, {})

\* ------------------------------------------------------------------------
\* C1.  expand_name is total: for every entity of a fully linked tree and
\* every non-empty name, with follow_aliases true or false, the call raises
\* nothing and returns a non-empty string, whatever the aliases,
\* indirections and base names are, provided no class is its own direct or
\* indirect base class.
C1_ExpandNameTotal ==
  (IsExpand /\ call.name # <<>>) =>
    (\/ (result.str # Raised /\ result.str # NoneStr)
     \/ ~NoClassIsOwnBase)

\* ------------------------------------------------------------------------
\* C2.  Base case, as claimed: for every entity E and every local name N
\* of a direct member of E's nearest container, expand_name(E, N) is that
\* member's own full name.
C2_Original ==
  \A m \in Entities :
    (IsExpand /\ tree[m].parent = container(call.self) /\ call.name = tree[m].name)
      => result.str = full_name(m)

\* C2, amended.  When the first direct member named N of E's nearest
\* container is not an Indirection and, with follow_aliases true, not a
\* Data alias, expand_name(E, N) is that member's own full name.
C2_BaseCase ==
  IsExpand =>
    LET m == FirstMember(container(call.self), call.name)
    IN  (m # None /\ ~isIndirection(m) /\ ~(call.follow_aliases /\ is_alias(m)))
          => result.str = full_name(m)

\* a function inside a class asks for a plain member of that class
C2_Witness ==
  /\ IsExpand
  /\ ~HasMembers(call.self)
  /\ isClass(container(call.self))
  /\ LET m == FirstMember(container(call.self), call.name)
     IN  m # None /\ ~IsAliasOrIndirection(m) /\ result.str = full_name(m)

\* ------------------------------------------------------------------------
\* C3.  Unresolvable name.

OsPathJoin == N3("os", "path", "join")

\* no entity, so no root module either, is named os
NoOs == \A e \in Entities : tree[e].name # N1("os")

\* C3, as claimed: in a tree that never defines os, expand_name(S,
\* 'os.path.join') on a scope S is S's full name followed by the name, and
\* resolve_name(S, 'os.path.join') is null.
C3_Original ==
  (NoOs /\ call.name = OsPathJoin /\ call.self # None /\ HasMembers(call.self)) =>
    /\ IsExpand => result.str = full_name(call.self) \o <<DOT>> \o OsPathJoin
    /\ IsResolve => result.obj = None

\* C3, amended: in a tree that never defines os, expand_name(S,
\* 'os.path.join') returns 'os.path.join' unchanged, from every entity S,
\* and resolve_name(S, 'os.path.join') is null.
C3_Unresolvable ==
  (NoOs /\ call.name = OsPathJoin) =>
    /\ IsExpand => result.str = OsPathJoin
    /\ IsResolve => result.obj = None

\* a class was asked, and answered with the name unchanged
C3_Witness ==
  /\ IsExpand /\ NoOs /\ call.name = OsPathJoin
  /\ isClass(call.self)
  /\ result.str = OsPathJoin

\* ------------------------------------------------------------------------
\* C4.  Multi-hop scenario: m1 has class Local, class Processor with the
\* Data member spec = external.Thing, and the alias P = Processor; m2 has
\* the Indirection P to m1.P and the alias renamed_mod = m1.  In m2,
\* expand_name('P.spec') is 'external.Thing' and
\* expand_name('renamed_mod.Local') is 'm1.Local': every alias is resolved
\* in the scope that declares it (a class Processor of m2 changes nothing).
C4_MultiHop ==
  (tree \in ScenarioTrees /\ IsExpand /\ call.follow_aliases /\ module(call.self) = 6) =>
    /\ call.name = N2("P", "spec") => result.str = N2("external", "Thing")
    /\ call.name = N2("renamed_mod", "Local") => result.str = N2("m1", "Local")

\* m2 was asked for P.spec while it has a class Processor of its own
C4_Witness ==
  /\ tree = ScenarioTree("Processor")
  /\ IsExpand /\ call.follow_aliases /\ call.self = 6
  /\ call.name = N2("P", "spec")
  /\ result.str = N2("external", "Thing")

\* ------------------------------------------------------------------------
\* C5.  Alias chains.

\* the entity that ends the chain of Data aliases starting at e, each alias
\* naming, by a one-part value, a member of its own container: the origin
\* if it is reached within k aliases, else None
RECURSIVE ChainOrigin(_, _)
ChainOrigin(e, k) ==
  IF ~IsAliasOrIndirection(e) THEN e
  ELSE IF k = 0 \/ ~is_alias(e) \/ Len(tree[e].value) # 1 THEN None
  ELSE LET n == FirstMember(tree[e].parent, tree[e].value)
       IN  IF n = None THEN None ELSE ChainOrigin(n, k - 1)

\* C5: for Data aliases a1 = a2, ..., ak = origin with 1 <= k <= 5, origin
\* being a registered entity that is neither an alias nor an Indirection,
\* expand_name of a1, from the scope declaring a1 and with follow_aliases
\* true, is the full name of origin.
C5_AliasChain ==
  (IsExpand /\ call.follow_aliases /\ Len(call.name) = 1) =>
    LET a1 == FirstMember(container(call.self), call.name)
    IN  (a1 # None /\ is_alias(a1) /\ ChainOrigin(a1, 5) # None)
          => result.str = full_name(ChainOrigin(a1, 5))

\* a chain of exactly five aliases was followed to its origin
C5_Witness ==
  /\ IsExpand /\ call.follow_aliases /\ Len(call.name) = 1
  /\ LET a1 == FirstMember(container(call.self), call.name)
     IN  /\ a1 # None /\ is_alias(a1)
         /\ ChainOrigin(a1, 4) = None
         /\ ChainOrigin(a1, 5) # None
         /\ result.str = full_name(ChainOrigin(a1, 5))

\* ------------------------------------------------------------------------
\* C6.  With follow_aliases true, expand_name never returns the full name
\* of a Data alias or of an Indirection, and resolve_name never returns an
\* Indirection or a Data alias.
C6_NeverAnAlias ==
  /\ (IsExpand /\ call.follow_aliases) =>
       \A e \in Entities : IsAliasOrIndirection(e) => result.str # full_name(e)
  /\ (IsResolve /\ call.follow_aliases) =>
       (result.obj \in Entities => ~IsAliasOrIndirection(result.obj))

\* ------------------------------------------------------------------------
\* C7.  Round trip.

FirstOfFullName(e) ==
  \A o \in Entities : full_name(o) = full_name(e) => e <= o

\* C7, as claimed: for every entity e, resolve_name called on e's root
\* module with e.full_name returns e.
C7_Original ==
  \A e \in Entities :
    (IsResolve /\ call.follow_aliases /\ call.self = root_module(e)
       /\ call.name = full_name(e))
      => result.obj = e

\* C7, amended: for every entity e that is neither a Data alias nor an
\* Indirection, when e and each of its ancestors is the first entity
\* registered under its full name and e's root module has no direct member
\* named like the root module itself, resolve_name called on e's root
\* module with e.full_name returns e.
C7_RoundTrip ==
  \A e \in Entities :
    (IsResolve /\ call.follow_aliases /\ call.self = root_module(e)
       /\ call.name = full_name(e)
       /\ ~IsAliasOrIndirection(e)
       /\ (\A k \in 1..Len(path(e)) : FirstOfFullName(path(e)[k]))
       /\ FirstMember(root_module(e), tree[root_module(e)].name) = None)
      => result.obj = e

\* the root module was asked for a member of one of its classes
C7_Witness ==
  \E e \in Entities :
    /\ IsResolve /\ call.follow_aliases /\ call.self = root_module(e)
    /\ call.name = full_name(e)
    /\ Len(path(e)) = 3
    /\ ~IsAliasOrIndirection(e)
    /\ result.obj = e

\* ------------------------------------------------------------------------
\* C8.  Alias cycles.

\* the text an alias or an Indirection stands for
TextOf(e) == IF isIndirection(e) THEN tree[e].target ELSE tree[e].value

\* the member that the part designates by lexical scope from container c,
\* or the root module of that name
RECURSIVE LexicalMember(_, _)
LexicalMember(c, part) ==
  IF FirstMember(c, part) # None THEN FirstMember(c, part)
  ELSE IF isClass(c) THEN LexicalMember(tree[c].parent, part)
  ELSE FirstMember(None, part)

\* walking the parts from the i-th on as members of e, without following
\* any alias: where the walk ends, and whether it used every part
RECURSIVE WalkFrom(_, _, _)
WalkFrom(e, parts, i) ==
  IF e = None THEN [ent |-> None, all |-> FALSE]
  ELSE IF i > Len(parts) THEN [ent |-> e, all |-> TRUE]
  ELSE IF IsAliasOrIndirection(e) THEN [ent |-> e, all |-> FALSE]
  ELSE WalkFrom(FirstMember(e, parts[i]), parts, i + 1)

Designated(scope, name) ==
  LET parts == split(name)
  IN  WalkFrom(LexicalMember(container(scope), parts[1]), parts, 2)

\* the alias or Indirection that the text of x reaches first, if any
Succ(x) ==
  LET w == Designated(tree[x].parent, TextOf(x))
  IN  IF w.ent # None /\ IsAliasOrIndirection(w.ent) THEN w.ent ELSE None

RECURSIVE Iter(_, _)
Iter(x, n) == IF n = 0 \/ x = None THEN x ELSE Iter(Succ(x), n - 1)

\* the chain of x, through the alias or Indirection that each text
\* reaches first, comes back to one of its members
ReachesCycle(x) ==
  \E k \in 0..Len(tree), n \in 1..Len(tree) :
    Iter(x, k) # None /\ Iter(Iter(x, k), n) = Iter(x, k)

\* C8, as claimed: when the aliases and indirections reached from the name
\* N form a cycle, expand_name(scope, N) raises nothing and returns the
\* full name of the first alias of the chain, the one N designates.
C8_Original ==
  (IsExpand /\ call.follow_aliases) =>
    LET w == Designated(call.self, call.name)
    IN  (w.ent # None /\ w.all /\ IsAliasOrIndirection(w.ent) /\ ReachesCycle(w.ent))
          => result.str = full_name(w.ent)

\* the alias or Indirection that the text of x names exactly, if any
NextAlias(x) ==
  LET w == Designated(tree[x].parent, TextOf(x))
  IN  IF w.ent # None /\ w.all /\ IsAliasOrIndirection(w.ent) THEN w.ent ELSE None

RECURSIVE IterAlias(_, _)
IterAlias(x, n) == IF n = 0 \/ x = None THEN x ELSE IterAlias(NextAlias(x), n - 1)

\* y is on a cycle of two or more aliases, each naming the next exactly
OnAliasCycle(y) ==
  /\ NextAlias(y) # None /\ NextAlias(y) # y
  /\ \E n \in 2..Len(tree) : IterAlias(y, n) = y

ReachesAliasCycle(x) ==
  \E k \in 0..Len(tree) : IterAlias(x, k) # None /\ OnAliasCycle(IterAlias(x, k))

\* C8, amended: when N designates an alias or Indirection whose chain, in
\* which the target of each one names the next one exactly, with no further
\* part, enters a cycle of two or more of them (a = b and b = a, or A.X
\* aliasing B.X aliasing A.X), expand_name(scope, N) raises nothing and
\* returns the full name of the alias that N designates.
C8_CycleOwnName ==
  (IsExpand /\ call.follow_aliases) =>
    LET w == Designated(call.self, call.name)
    IN  (w.ent # None /\ w.all /\ IsAliasOrIndirection(w.ent) /\ ReachesAliasCycle(w.ent))
          => result.str = full_name(w.ent)

\* A.X aliasing B.X aliasing A.X: the module was asked for A.X
C8_Witness ==
  /\ tree \in CrossTrees
  /\ IsExpand /\ call.follow_aliases /\ call.self = 1
  /\ call.name = N2("A", "X")
  /\ OnAliasCycle(3)
  /\ result.str = full_name(3)

\* ------------------------------------------------------------------------
\* C9.  Inheritance lookup order.

\* the classes among the resolved bases of c, in order
ClassBasesOf(c) ==
  LET bases == resolved_bases(c, {})
  IN  IF bases = RaisedBases THEN <<>>
      ELSE SelectSeq(bases, LAMBDA b : b.obj # None /\ isClass(b.obj))

\* the first member named `name` met in c itself, then in the whole chain
\* of its first base, then of its second base, and so on
RECURSIVE FirstInherited(_, _, _)
RECURSIVE FirstInheritedFrom(_, _, _, _)
FirstInherited(c, name, seen) ==
  IF c \in seen THEN None
  ELSE IF FirstMember(c, name) # None THEN FirstMember(c, name)
  ELSE FirstInheritedFrom(ClassBasesOf(c), 1, name, seen \cup {c})

FirstInheritedFrom(bases, j, name, seen) ==
  IF j > Len(bases) THEN None
  ELSE LET r == FirstInherited(bases[j].obj, name, seen)
       IN  IF r # None THEN r ELSE FirstInheritedFrom(bases, j + 1, name, seen)

\* C9: C.find(name), when it returns, returns the first direct member named
\* name met when visiting C itself, then the full depth-first chain of C's
\* first resolved base, then that of the second base, and so on, and null
\* when no visited class has such a member; for class C(A, B) with A and B
\* both defining f and C not defining it, C.find('f') is A's f.
C9_FindOrder ==
  (IsFind /\ result.obj # RaisedObj) =>
    /\ result.obj = FirstInherited(call.self, call.name, {})
    /\ \A n10 \in {"k2", "g"} :
         (tree = InheritTree("f", n10, <<N1("A"), N1("B")>>)
            /\ call.self = 8 /\ call.name = N1("f"))
           => result.obj = 5

\* C(A, B), where A and B define f and C does not: find gave A's f
C9_Witness ==
  /\ IsFind /\ call.name = N1("f")
  /\ tree[call.self].bases = <<N1("A"), N1("B")>>
  /\ FirstMember(call.self, N1("f")) = None
  /\ FirstMember(4, N1("f")) # None /\ FirstMember(6, N1("f")) # None
  /\ result.obj = FirstMember(4, N1("f"))

\* ------------------------------------------------------------------------
\* C10.  Inherited members in dotted names: when the second part of a name
\* is looked up in a context that is a Class C, is not a direct member of C
\* and is a direct member of a class that C.find reaches, expand_name uses
\* the full name of the member that C.find returns, whatever the enclosing
\* module or the outer classes of C define.
C10_InheritedMember ==
  (IsExpand /\ Len(split(call.name)) = 2) =>
    LET parts == split(call.name)
        ctx == all_objects_get(
                 _local_to_full_name(call.self, parts[1], call.follow_aliases, <<>>, {}))
        f == FirstInherited(ctx, parts[2], {})
    IN  (ctx # None /\ isClass(ctx) /\ FirstMember(ctx, parts[2]) = None /\ f # None)
          => result.str = full_name(f)

\* ------------------------------------------------------------------------
\* C11.  Shape of the best-effort result.

\* lines 210-229 seen one iteration at a time: for every iteration that
\* runs, from the i-th on, the context ctx it looked the part up in, the
\* value of full_name when the iteration ends, and how it ends: by the
\* break of line 225, by the break of line 228, by going on to the next
\* part, with the last part, or by an exception
RECURSIVE expand_steps(_, _, _, _, _, _, _)
expand_steps(self, parts, i, ctx, follow_aliases, _indirections, busy) ==
  LET part == parts[i]
      full == _local_to_full_name(ctx, part, follow_aliases, _indirections, busy)
      f == IF full # Raised /\ not_found(full, part, i) /\ isClass(ctx)
           THEN find(ctx, part, busy) ELSE None
      inherited == IF f # None /\ f # RaisedObj THEN full_name(f) ELSE full
  IN  IF full = Raised \/ f = RaisedObj
      THEN <<[ctx |-> ctx, full_name |-> Raised, ends |-> "raise"]>>
      ELSE IF not_found(full, part, i) /\ inherited = part
      THEN <<[ctx |-> ctx, full_name |-> full_name(ctx) \o <<DOT>> \o part,
              ends |-> "break 225"]>>
      ELSE IF all_objects_get(inherited) = None
      THEN <<[ctx |-> ctx, full_name |-> inherited, ends |-> "break 228"]>>
      ELSE IF i = Len(parts)
      THEN <<[ctx |-> ctx, full_name |-> inherited, ends |-> "last"]>>
      ELSE <<[ctx |-> ctx, full_name |-> inherited, ends |-> "next"]>>
           \o expand_steps(self, parts, i + 1, all_objects_get(inherited),
                           follow_aliases, _indirections, busy)

\* the iterations of the call the caller made
StepsOfCall ==
  expand_steps(call.self, DottedName(<<call.name>>), 1, call.self,
               call.follow_aliases, <<>>, {})

\* the parts from the i-th on, joined behind the string s
WithRest(s, parts, i) ==
  IF i > Len(parts) THEN s ELSE s \o <<DOT>> \o join(SubSeq(parts, i, Len(parts)))

\* C11: in a call of expand_name that returns, an iteration at index i >= 1
\* (the second part or a later one) whose part is neither a direct member
\* of the current context nor found by the inheritance lookup is the last
\* one, and the result is context.full_name + '.' + part followed by the
\* remaining parts verbatim; an iteration whose part resolves to a full
\* name that is not a registry key is the last one, and the result is that
\* full name followed by the remaining parts verbatim.
C11_BestEffortShape ==
  (IsExpand /\ call.name # <<>> /\ result.str # Raised) =>
    LET parts == DottedName(<<call.name>>)
        steps == StepsOfCall
    IN  \A i \in 1..Len(steps) :
          /\ (i >= 2 /\ FirstMember(steps[i].ctx, parts[i]) = None
                /\ FirstInherited(steps[i].ctx, parts[i], {}) = None)
               => /\ i = Len(steps)
                  /\ result.str =
                       WithRest(full_name(steps[i].ctx) \o <<DOT>> \o parts[i], parts, i + 1)
          /\ all_objects_get(steps[i].full_name) = None
               => /\ i = Len(steps)
                  /\ result.str = WithRest(steps[i].full_name, parts, i + 1)

\* the iterations recorded are those of the result: the result is the last
\* full_name followed by the parts that were not looked at
StepsAgreeWithResult ==
  (IsExpand /\ call.name # <<>> /\ result.str # Raised) =>
    LET parts == DottedName(<<call.name>>)
        steps == StepsOfCall
    IN  /\ Len(steps) >= 1
        /\ \A i \in 1..Len(steps) : (steps[i].ends = "next") <=> (i < Len(steps))
        /\ result.str = WithRest(steps[Len(steps)].full_name, parts, Len(steps) + 1)

\* ------------------------------------------------------------------------
\* The calls made during one resolution.  A call is recorded with the
\* method called (fn), the method that called it (by), the chain of
\* indirections it received (chain; None and [] are both <<>>) and the
\* chain its caller held (held).

CallOf(fn, by, chain, held) == [fn |-> fn, by |-> by, chain |-> chain, held |-> held]

RECURSIVE expand_name_calls(_, _, _, _, _, _, _)
RECURSIVE expand_parts_calls(_, _, _, _, _, _, _)
RECURSIVE _local_to_full_name_calls(_, _, _, _, _, _, _)
RECURSIVE _resolve_indirection_calls(_, _, _, _)
RECURSIVE resolved_bases_calls_from(_, _, _)
RECURSIVE find_calls(_, _, _)

\* lines 210-229: the calls of the iterations from the i-th on
expand_parts_calls(self, parts, i, ctx, follow_aliases, _indirections, busy) ==
  LET part == parts[i]
      full == _local_to_full_name(ctx, part, follow_aliases, _indirections, busy)
      local == _local_to_full_name_calls(ctx, part, follow_aliases, _indirections,
                                         "expand_name", _indirections, busy)
      looks == full # Raised /\ not_found(full, part, i) /\ isClass(ctx)
      f == IF looks THEN find(ctx, part, busy) ELSE None
      inherited == IF f # None /\ f # RaisedObj THEN full_name(f) ELSE full
      here == local \cup (IF looks THEN find_calls(ctx, part, busy) ELSE {})
  IN  IF full = Raised \/ f = RaisedObj THEN here
      ELSE IF not_found(full, part, i) /\ inherited = part THEN here
      ELSE IF all_objects_get(inherited) = None \/ i = Len(parts) THEN here
      ELSE here \cup expand_parts_calls(self, parts, i + 1, all_objects_get(inherited),
                                        follow_aliases, _indirections, busy)

\* lines 164-231
expand_name_calls(self, name, follow_aliases, _indirections, by, held, busy) ==
  {CallOf("expand_name", by, _indirections, held)}
  \cup expand_parts_calls(self, DottedName(<<name>>), 1, self, follow_aliases,
                          _indirections, busy)

\* lines 243-261
_local_to_full_name_calls(self, name, follow_aliases, _indirections, by, held, busy) ==
  {CallOf("_local_to_full_name", by, _indirections, held)}
  \cup
  IF ~HasMembers(self)
  THEN IF tree[self].parent = None THEN {}
       ELSE _local_to_full_name_calls(tree[self].parent, name, follow_aliases, _indirections,
                                      "_local_to_full_name", _indirections, busy)
  ELSE LET member == get_member(self, name)
       IN  IF member # None
           THEN IF follow_aliases /\ isData(member) /\ is_alias(member)
                THEN _resolve_indirection_calls(self, _alias_indirection(member),
                                                _indirections, busy)
                ELSE IF isIndirection(member)
                THEN _resolve_indirection_calls(self, IndirectionOf(member),
                                                _indirections, busy)
                ELSE {}
           ELSE IF isClass(self) /\ tree[self].parent # None
           THEN _local_to_full_name_calls(tree[self].parent, name, follow_aliases,
                                          _indirections, "_local_to_full_name",
                                          _indirections, busy)
           ELSE {}

\* lines 263-299
_resolve_indirection_calls(self, indirection, _indirections, busy) ==
  {CallOf("_resolve_indirection", "_local_to_full_name", _indirections, _indirections)}
  \cup
  IF Len(_indirections) > _RESOLVE_ALIAS_MAX_RECURSE THEN {}
  ELSE LET target == indirection.target
           ctx == indirection.parent
           chain == Append(_indirections, indirection)
       IN  IF ctx = None THEN {}
           ELSE IF _indirections = <<>> \/ _indirections[Len(_indirections)] # indirection
           THEN expand_name_calls(ctx, target, TRUE, chain,
                                  "_resolve_indirection", _indirections, busy)
           ELSE IF tree[ctx].parent # None /\ module(ctx) = module(tree[ctx].parent)
           THEN expand_name_calls(tree[ctx].parent, target, TRUE, chain,
                                  "_resolve_indirection", _indirections, busy)
           ELSE {}

\* lines 431-434, from the j-th base on: resolve_name and expand_name are
\* called without a chain; the loop ends where a call raises
resolved_bases_calls_from(self, j, busy) ==
  IF j > Len(tree[self].bases) THEN {}
  ELSE LET base == tree[self].bases[j]
           parent == tree[self].parent
           here == expand_name_calls(parent, base, TRUE, <<>>, "resolved_bases", <<>>, busy)
       IN  IF expand_name(parent, base, TRUE, <<>>, busy) = Raised THEN here
           ELSE here \cup resolved_bases_calls_from(self, j + 1, busy)

\* lines 424-434.  A computation that reaches itself again makes the same
\* calls again, until RecursionError.
resolved_bases_calls(self, busy) ==
  IF self \in busy \/ (tree[self].bases # <<>> /\ tree[self].parent = None)
  THEN {}
  ELSE resolved_bases_calls_from(self, 1, busy \cup {self})

\* lines 452-463.  The generators are lazy: resolved_bases is read for the
\* classes that find has looked at without finding the name, not for the
\* class that has it.
find_calls(self, name, busy) ==
  LET classes == all_base_classes(self, TRUE, busy)
      stops == {j \in 1..Len(classes) :
                  classes[j] = RaiseElem \/ get_member(classes[j].obj, name) # None}
      last == IF stops = {} THEN Len(classes) ELSE Min(stops) - 1
  IN  UNION {resolved_bases_calls(classes[j].obj, busy) : j \in 1..last}

\* the calls of the call the caller made
CallsOfCall ==
  expand_name_calls(call.self, call.name, call.follow_aliases, <<>>, "caller", <<>>, {})

\* the longest chain that a set of calls has received
Max(S) == CHOOSE x \in S : \A y \in S : y <= x

LongestChain(calls) == Max({Len(c.chain) : c \in calls})

\* ------------------------------------------------------------------------
\* C12.  An alias or an Indirection whose target is its own name.

\* the text of x is the name of x
SelfReferential(x) == IsAliasOrIndirection(x) /\ TextOf(x) = tree[x].name

\* the scope has a parent that belongs to the same module
ParentInSameModule(scope) ==
  tree[scope].parent # None /\ module(scope) = module(tree[scope].parent)

\* the one-part name of the call designates, by lexical scope, a
\* self-referential alias or Indirection that the call follows
FollowsSelfReferential(x) ==
  /\ IsExpand /\ Len(call.name) = 1
  /\ x = LexicalMember(container(call.self), call.name)
  /\ x # None /\ SelfReferential(x)
  /\ (call.follow_aliases \/ isIndirection(x))

\* what the parent scope of the declaring scope of x resolves the name to
ParentResolves(x) ==
  expand_name(tree[tree[x].parent].parent, tree[x].name, TRUE, <<>>, {})

\* the calls of that resolution
ParentResolvesCalls(x) ==
  expand_name_calls(tree[tree[x].parent].parent, tree[x].name, TRUE, <<>>,
                    "caller", <<>>, {})

C12_WitnessPackage ==
  \E x \in Entities :
    /\ FollowsSelfReferential(x)
    /\ isModule(tree[x].parent) /\ tree[tree[x].parent].parent # None
    /\ result.str = full_name(x)

\* ------------------------------------------------------------------------
\* C13.  follow_aliases = False.

\* what the name designates when every Indirection that a text names
\* exactly is followed to its target, at most n times, and no Data alias
\* is followed
RECURSIVE ThroughIndirections(_, _, _)
ThroughIndirections(scope, name, n) ==
  LET w == Designated(scope, name)
  IN  IF n > 0 /\ w.ent # None /\ w.all /\ isIndirection(w.ent) /\ ~SelfReferential(w.ent)
      THEN ThroughIndirections(tree[w.ent].parent, tree[w.ent].target, n - 1)
      ELSE w

\* C13: expand_name(e, n, follow_aliases=False) replaces no Data alias by
\* the name its value refers to, at any step, the resolution of the target
\* of an Indirection included: a name that designates a Data alias,
\* directly or through Indirections, expands to the own full name of that
\* alias.
C13_NoAliasFollowed ==
  (IsExpand /\ ~call.follow_aliases /\ result.str # Raised) =>
    LET w == ThroughIndirections(call.self, call.name, _RESOLVE_ALIAS_MAX_RECURSE)
    IN  (w.ent # None /\ w.all /\ is_alias(w.ent)) => result.str = full_name(w.ent)

\* the part of C13 that does not involve an Indirection: a name that
\* designates a Data alias directly expands to the own full name of the alias
DirectAliasNotFollowed ==
  (IsExpand /\ ~call.follow_aliases /\ result.str # Raised) =>
    LET w == Designated(call.self, call.name)
    IN  (w.ent # None /\ w.all /\ is_alias(w.ent)) => result.str = full_name(w.ent)

\* ------------------------------------------------------------------------
\* C14.  The first part of a name is resolved by lexical scope only.

\* the first member named n met in the container c, then in the classes
\* and the module that enclose it, outward; None when no scope has one
RECURSIVE ScopeMember(_, _)
ScopeMember(c, n) ==
  IF FirstMember(c, n) # None THEN FirstMember(c, n)
  ELSE IF isClass(c) /\ tree[c].parent # None THEN ScopeMember(tree[c].parent, n)
  ELSE None

\* C14: for a one-part name N looked up from a Class C, or from an entity
\* without members inside C, the lookup goes through C's direct members,
\* then the enclosing classes and the module, and never through the base
\* classes of C: a plain member that a scope has is the answer whatever
\* the base classes define, and when N is a member of a base class of C
\* only, and of no enclosing scope, expand_name returns N unchanged and
\* resolve_name returns null, unless N is a registry key.
C14_LexicalFirstPart ==
  ((IsExpand \/ IsResolve) /\ Len(call.name) = 1 /\ isClass(container(call.self))) =>
    LET c == container(call.self)
        x == ScopeMember(c, call.name)
    IN  /\ (x # None /\ ~IsAliasOrIndirection(x)) =>
             /\ IsExpand => result.str = full_name(x)
             /\ IsResolve => result.obj = all_objects_get(full_name(x))
        /\ (x = None /\ FirstInherited(c, call.name, {}) # None) =>
             /\ IsExpand => result.str = call.name
             /\ IsResolve => (all_objects_get(call.name) = None => result.obj = None)

\* a method of class C(A, B) asked for f, which A and B define and neither
\* C nor the module does: the answer is f, unchanged
C14_Witness ==
  /\ IsExpand /\ Len(call.name) = 1
  /\ ~HasMembers(call.self) /\ isClass(container(call.self))
  /\ ScopeMember(container(call.self), call.name) = None
  /\ FirstInherited(container(call.self), call.name, {}) # None
  /\ Len(ClassBasesOf(container(call.self))) = 2
  /\ result.str = call.name

\* ------------------------------------------------------------------------
\* C15.  The chain of indirections is bounded and never shared.

\* chain is held with one more entry at its end
OneLonger(chain, held) ==
  Len(chain) = Len(held) + 1 /\ SubSeq(chain, 1, Len(held)) = held

\* C15: in every call made during a call of expand_name, the chain that
\* expand_name, _local_to_full_name or _resolve_indirection receives has at
\* most 6 entries; the chain that _resolve_indirection passes to
\* expand_name is the one it received with exactly one more entry; and
\* _local_to_full_name and _resolve_indirection receive the chain that
\* their caller holds, unchanged, so that every part of one dotted name is
\* resolved against the same chain.
C15_ChainBound ==
  IsExpand =>
    \A c \in CallsOfCall :
      /\ Len(c.chain) <= 6
      /\ (c.fn = "expand_name" /\ c.by = "_resolve_indirection")
           => OneLonger(c.chain, c.held)
      /\ c.fn \in {"_local_to_full_name", "_resolve_indirection"} => c.chain = c.held

\* a resolution went as deep as the bound allows: a call of
\* _resolve_indirection received six entries, and the second part of the
\* name was looked up with the empty chain of the caller
C15_Witness ==
  /\ IsExpand /\ Len(split(call.name)) = 2
  /\ \E c \in CallsOfCall :
       c.fn = "_resolve_indirection" /\ Len(c.chain) = 6
  /\ \E c \in CallsOfCall :
       c.fn = "expand_name" /\ c.by = "_resolve_indirection" /\ Len(c.chain) = 6
  /\ Len(StepsOfCall) = 2
  /\ result.str # Raised

====
